---- MODULE Spec2Model ----
(***************************************************************************)
(* Model of the Avito rental bot (src/main.py, src/telegram.py): the poll  *)
(* loop AvitoRentalBot.run, the per-chat reconciliation process_chat, the  *)
(* completion handoff handle_completed_dialog and the Telegram notifier.   *)
(* Every await of the source is a suspension point: the code between two   *)
(* awaits of one asyncio task runs atomically and is one action here.      *)
(***************************************************************************)
EXTENDS Integers, Sequences, FiniteSets, Bags, TLC

(***************************************************************************)
(* Bounds of the model.                                                    *)
(***************************************************************************)
MaxNow == 3          \* datetime.utcnow() returns one of MaxStamp..MaxNow
MaxStamp == 2        \* message timestamps are 1..MaxStamp
MaxMsgs == 2         \* length of a fetched message list
MaxBatch == 2        \* length of a conversation listing
MaxSaved == 2        \* a chat is listed while it has fewer saved replies
MaxRespLen == 4      \* length of a generated reply, in characters
MaxHistory == 3      \* length of a list given to a function applied on its own

(***************************************************************************)
(* Configuration (config.py is not part of the sources; the values are in  *)
(* model units).                                                           *)
(***************************************************************************)
TIME_WINDOW_HOURS == 1
MAX_MESSAGES_HISTORY == 2
COMPLETION_MARKER == <<"[", "]">>

Chats == {"c1"}
NoId == "none"       \* a listed chat whose "id" is missing or empty

STAGE_GREETING == "greeting"
STAGE_RESIDENTS == "residents"
STAGE_CHILDREN == "children"
STAGE_PETS == "pets"
STAGE_RENTAL_PERIOD == "rental_period"
STAGE_DEADLINE == "deadline"
STAGE_CONTACTS == "contacts"
STAGE_COMPLETE == "complete"

Stages ==
  {STAGE_GREETING, STAGE_RESIDENTS, STAGE_CHILDREN, STAGE_PETS,
   STAGE_RENTAL_PERIOD, STAGE_DEADLINE, STAGE_CONTACTS, STAGE_COMPLETE}

(***************************************************************************)
(* Strings are sequences of symbols.  A symbol is a character (" " is      *)
(* white space, a digit is "0".."9") or a whole keyword of the classifier. *)
(***************************************************************************)
SeqsUpTo(S, n) == UNION {[1..k -> S] : k \in 0..n}

Contains(s, sub) ==
  \E i \in 1..(Len(s) - Len(sub) + 1) : SubSeq(s, i, i + Len(sub) - 1) = sub

\* str.strip(): white space removed at both ends
RECURSIVE LStrip(_)
LStrip(s) == IF s # <<>> /\ Head(s) = " " THEN LStrip(Tail(s)) ELSE s

RECURSIVE RStrip(_)
RStrip(s) ==
  IF s # <<>> /\ s[Len(s)] = " " THEN RStrip(SubSeq(s, 1, Len(s) - 1)) ELSE s

Strip(s) == RStrip(LStrip(s))

\* str.replace(old, ""): one left-to-right pass over non-overlapping matches
RECURSIVE Remove(_, _)
Remove(s, old) ==
  IF s = <<>> THEN <<>>
  ELSE IF Len(s) >= Len(old) /\ SubSeq(s, 1, Len(old)) = old
       THEN Remove(SubSeq(s, Len(old) + 1, Len(s)), old)
       ELSE <<Head(s)>> \o Remove(Tail(s), old)

(***************************************************************************)
(* Messages as the platform returns them: direction, type, text, created.  *)
(* Keywords of the classifier are written in Latin transliteration.        *)
(***************************************************************************)
Digits == {"0", "1", "2", "3", "4", "5", "6", "7", "8", "9"}
PhoneNumber == "+79001234567"     \* one symbol standing for eleven digits

DigitCountOf(ch) == IF ch \in Digits THEN 1 ELSE IF ch = PhoneNumber THEN 11 ELSE 0

RECURSIVE DigitCount(_)
DigitCount(s) == IF s = <<>> THEN 0 ELSE DigitCountOf(Head(s)) + DigitCount(Tail(s))

\* str.lower(): the capitalised keywords become the lower-case ones
LowerOf(ch) ==
  CASE ch = "Zdravstvuyte" -> "zdravstvuyte"
    [] ch = "Svetlana" -> "svetlana"
    [] ch = "Mesyats" -> "mesyats"
    [] OTHER -> ch

Lower(s) == [i \in 1..Len(s) |-> LowerOf(s[i])]

Symbols(s) == {s[i] : i \in 1..Len(s)}

\* any(word in text for word in words)
AnyIn(words, s) == Symbols(s) \cap words # {}

ResidentWords ==
  {"chelovek", "budu", "planiruyu", "odin", "dva", "tri", "sem", "para", "semya"}
PeriodWords == {"mesyats", "god", "nadolgo", "postoyanno"}
MonthWords ==
  {"avgust", "sentyabr", "oktyabr", "noyabr", "dekabr", "yanvar", "fevral",
   "mart", "aprel", "may", "iyun", "iyul"}

\* " ".join(texts)
RECURSIVE Join(_)
Join(texts) ==
  IF texts = <<>> THEN <<>>
  ELSE IF Len(texts) = 1 THEN texts[1]
       ELSE texts[1] \o <<" ">> \o Join(Tail(texts))

\* the loop of lines 47-57: the stripped, lower-cased, non-empty texts of one side
RECURSIVE TextsOf(_, _)
TextsOf(messages, agent) ==
  IF messages = <<>> THEN <<>>
  ELSE LET message == Head(messages)
           text == Lower(Strip(message.text))
           rest == TextsOf(Tail(messages), agent)
       IN  IF message.type # "text" \/ text = <<>> THEN rest
           ELSE IF (message.direction = "out") = agent THEN <<text>> \o rest
                ELSE rest

\* lines 44-82: what the classifier reads off the messages; the asks_ fields
\* are the keyword tests on last_agent_msg
StageFacts(messages) ==
  LET agent_messages == TextsOf(messages, TRUE)
      client_messages == TextsOf(messages, FALSE)
      client_text == Lower(Join(client_messages))
      last_agent_msg ==
        IF agent_messages # <<>> THEN agent_messages[Len(agent_messages)] ELSE <<>>
      last == Symbols(last_agent_msg)
  IN  [has_agent_messages |-> agent_messages # <<>>,
       has_greeting |->
         \E i \in 1..Len(agent_messages) :
           /\ "zdravstvuyte" \in Symbols(agent_messages[i])
           /\ "svetlana" \in Symbols(agent_messages[i]),
       has_residents_info |-> AnyIn(ResidentWords, client_text),
       has_period_info |->
         \/ AnyIn(PeriodWords, client_text)
         \/ ("mesyats" \in Symbols(client_text) /\ DigitCount(client_text) > 0),
       has_date_info |->
         \/ AnyIn(MonthWords, client_text)
         \/ ("chislo" \in Symbols(client_text) /\ DigitCount(client_text) > 0),
       has_phone |->
         \E i \in 1..Len(client_messages) : DigitCount(client_messages[i]) >= 10,
       asks_residents |-> "kto_prozhivat_planiruet" \in last,
       asks_children |-> "det" \in last \/ "reben" \in last,
       asks_pets |-> "zhivotn" \in last \/ "pitom" \in last,
       asks_period |-> "srok" \in last \/ "mesyats" \in last,
       asks_date |-> "data" \in last \/ "zaez" \in last,
       asks_phone |-> "telefon" \in last \/ "nomer" \in last]

StageOf_PetsBeforeChildren(facts) ==
  IF ~facts.has_agent_messages THEN STAGE_GREETING
  ELSE IF ~facts.has_greeting THEN STAGE_GREETING
  ELSE IF ~facts.has_residents_info \/ facts.asks_residents THEN STAGE_RESIDENTS
  ELSE IF facts.asks_pets /\ ~facts.has_period_info THEN STAGE_PETS
  ELSE IF facts.asks_children /\ ~facts.has_period_info THEN STAGE_CHILDREN
  ELSE IF ~facts.has_period_info \/ facts.asks_period THEN STAGE_RENTAL_PERIOD
  ELSE IF ~facts.has_date_info \/ facts.asks_date THEN STAGE_DEADLINE
  ELSE IF ~facts.has_phone \/ facts.asks_phone THEN STAGE_CONTACTS
  ELSE STAGE_COMPLETE

\* lines 59-66 and 84-98: the returns of the classifier, in their order
StageOf(facts) ==
  IF ~facts.has_agent_messages THEN STAGE_GREETING
  ELSE IF ~facts.has_greeting THEN STAGE_GREETING
  ELSE IF ~facts.has_residents_info \/ facts.asks_residents THEN STAGE_RESIDENTS
  ELSE IF facts.asks_children /\ ~facts.has_period_info THEN STAGE_CHILDREN
  ELSE IF facts.asks_pets /\ ~facts.has_period_info THEN STAGE_PETS
  ELSE IF ~facts.has_period_info \/ facts.asks_period THEN STAGE_RENTAL_PERIOD
  ELSE IF ~facts.has_date_info \/ facts.asks_date THEN STAGE_DEADLINE
  ELSE IF ~facts.has_phone \/ facts.asks_phone THEN STAGE_CONTACTS
  ELSE STAGE_COMPLETE

determine_dialog_stage(messages) == StageOf(StageFacts(messages))

(***************************************************************************)
(* AvitoRentalBot.format_dialog_history                                    *)
(***************************************************************************)
\* messages[-MAX_MESSAGES_HISTORY:]
LastN(messages, n) ==
  IF Len(messages) <= n THEN messages
  ELSE SubSeq(messages, Len(messages) - n + 1, Len(messages))

\* sorted(..., key=created) is stable: a message goes behind every message
\* already placed whose created is not greater
RECURSIVE InsertByCreated(_, _)
InsertByCreated(sorted, message) ==
  IF sorted = <<>> THEN <<message>>
  ELSE IF Head(sorted).created <= message.created
       THEN <<Head(sorted)>> \o InsertByCreated(Tail(sorted), message)
       ELSE <<message>> \o sorted

RECURSIVE SortedByCreated(_)
SortedByCreated(messages) ==
  IF messages = <<>> THEN <<>>
  ELSE InsertByCreated(SortedByCreated(SubSeq(messages, 1, Len(messages) - 1)),
                       messages[Len(messages)])

ClientLabel == <<"Klient", ":", " ">>
AgentLabel == <<"Svetlana", ":", " ">>

StartsWith(s, prefix) ==
  Len(s) >= Len(prefix) /\ SubSeq(s, 1, Len(prefix)) = prefix

\* lines 109-126: the lines that the loop appends to dialog
RECURSIVE DialogOf(_)
DialogOf(sorted_messages) ==
  IF sorted_messages = <<>> THEN <<>>
  ELSE LET message == Head(sorted_messages)
           text == Strip(message.text)
           clean_text ==
             IF StartsWith(text, AgentLabel)
               THEN Strip(SubSeq(text, Len(AgentLabel) + 1, Len(text)))
               ELSE text
           rest == DialogOf(Tail(sorted_messages))
       IN  IF message.type # "text" \/ text = <<>> THEN rest
           ELSE IF message.direction = "in" THEN <<ClientLabel \o text>> \o rest
           ELSE IF message.direction = "out" THEN <<AgentLabel \o clean_text>> \o rest
           ELSE rest

\* "\n".join(dialog)
RECURSIVE JoinLines(_)
JoinLines(dialog) ==
  IF dialog = <<>> THEN <<>>
  ELSE IF Len(dialog) = 1 THEN dialog[1]
       ELSE dialog[1] \o <<"\n">> \o JoinLines(Tail(dialog))

format_dialog_history(messages) ==
  LET recent_messages == LastN(messages, MAX_MESSAGES_HISTORY)
      sorted_messages == SortedByCreated(recent_messages)
  IN  JoinLines(DialogOf(sorted_messages))

(***************************************************************************)
(* The inputs of the reconciliation: what the platform may return.         *)
(***************************************************************************)
Stamps == 1..MaxStamp
Clocks == MaxStamp..MaxNow   \* datetime.utcnow() at line 155: no stamp is ahead of it
Texts == {<<>>, <<" ">>, <<"Zdravstvuyte", "Svetlana">>}
Messages ==
  [direction : {"in", "out"}, type : {"text", "image"}, text : Texts, created : Stamps]
MessageLists == SeqsUpTo(Messages, MaxMsgs)

RespChars == {"a", " ", "[", "]"}
Responses == SeqsUpTo(RespChars, MaxRespLen)

Max(S) == CHOOSE x \in S : \A y \in S : y <= x

Range(f) == {f[i] : i \in DOMAIN f}

(***************************************************************************)
(* State.                                                                  *)
(*   processed_messages, completed_chats, chat_stages : the bot's fields   *)
(*   chat_states : the number of transcripts saved per chat (the list is   *)
(*                 only ever appended to and never read)                   *)
(*   run_pc      : where the poll loop of run() is                         *)
(*   tasks       : the process_chat tasks of the current batch, a bag:     *)
(*                 nothing in the code tells two tasks apart but what     *)
(*                 they hold                                               *)
(*   fetched     : history, what the get_messages call of the step just    *)
(*                 taken returned and the clock it was judged by (NoFetch  *)
(*                 after any other step)                                   *)
(*   dispatched  : history, successful sends per chat and inbound stamp    *)
(*   handoffs    : history, extractor calls per chat                       *)
(*   caught      : history, where the exception came from that the except  *)
(*                 clause of run() caught in the step just taken           *)
(*   probe       : the argument and the result of a function of the bot    *)
(*                 that is applied on its own                              *)
(***************************************************************************)
VARIABLES processed_messages, completed_chats, chat_stages, chat_states,
          run_pc, tasks, fetched, dispatched, handoffs, caught, probe

vars == <<processed_messages, completed_chats, chat_stages, chat_states,
          run_pc, tasks, fetched, dispatched, handoffs, caught, probe>>

NoFetch == [seen_in |-> 0, seen_out |-> 0, now |-> 0]

NoError == ""

NoProbe == [fn |-> "none"]

\* AvitoRentalBot.__init__, and run() not yet in its loop
InitBot ==
  /\ processed_messages = [c \in Chats |-> 0]
  /\ completed_chats = {}
  /\ chat_stages = [c \in Chats |-> STAGE_GREETING]
  /\ chat_states = [c \in Chats |-> 0]
  /\ run_pc = "list"
  /\ tasks = EmptyBag
  /\ fetched = NoFetch
  /\ dispatched = [c \in Chats |-> [t \in Stamps |-> 0]]
  /\ handoffs = [c \in Chats |-> 0]
  /\ caught = NoError

Init == InitBot /\ probe = NoProbe

\* asyncio.create_task(self.process_chat(client, chat_id, chat))
NewTask(chat_id) ==
  [chat |-> chat_id, pc |-> "start", last_incoming |-> 0, marker |-> FALSE,
   events |-> <<>>, result |-> "", failed |-> "", escaped |-> FALSE]

\* the tasks created by the loop of lines 270-277: one per listed chat with an id
RECURSIVE CreateTasks(_)
CreateTasks(chats) ==
  IF chats = <<>> THEN EmptyBag
  ELSE IF Head(chats) # NoId
       THEN SetToBag({NewTask(Head(chats))}) (+) CreateTasks(Tail(chats))
       ELSE CreateTasks(Tail(chats))

\* the end of the invocation: its locals are gone
Ended(task) == [task EXCEPT !.pc = "done", !.last_incoming = 0, !.marker = FALSE]

\* a return statement of process_chat
Return(task, why) == [Ended(task) EXCEPT !.result = why]

\* an awaited call of a collaborator: the task is suspended at it
Call(task, what, at) == [task EXCEPT !.pc = at, !.events = @ \o <<what>>]

\* a write to the bot's fields, recorded in the invocation's trace
Note(task, what) == [task EXCEPT !.events = @ \o <<what>>]

\* the awaited call of collaborator `who` raises an exception
Raise(task, who) ==
  [Ended(task) EXCEPT !.result = "raised", !.failed = who, !.escaped = TRUE]

\* the awaited call of collaborator `who` returns a failure value
Fails(task, who, why) == [Ended(task) EXCEPT !.result = why, !.failed = who]

Caught_Reraised(task) == [task EXCEPT !.result = "error"]

\* process_chat: except Exception as e (lines 225-226)
Caught(task) == [task EXCEPT !.result = "error", !.escaped = FALSE]

\* handle_completed_dialog: except Exception as e (lines 252-253)
CaughtInHandoff(task) == [task EXCEPT !.result = "handoff_error", !.escaped = FALSE]

(***************************************************************************)
(* process_chat, lines 142-173: the decisions taken on a fetched list.     *)
(***************************************************************************)
IsIncomingText_AnyType(message) ==
  /\ message.direction = "in"
  /\ Strip(message.text) # <<>>

\* the condition of lines 145-147
IsIncomingText(message) ==
  /\ message.direction = "in"
  /\ message.type = "text"
  /\ Strip(message.text) # <<>>

\* the loop of lines 143-149 from position k on; best is the index of
\* last_incoming so far (0 is None)
RECURSIVE FindLastIncoming(_, _, _)
FindLastIncoming(messages, k, best) ==
  IF k > Len(messages) THEN best
  ELSE IF IsIncomingText(messages[k])
          /\ (best = 0 \/ messages[k].created > messages[best].created)
       THEN FindLastIncoming(messages, k + 1, k)
       ELSE FindLastIncoming(messages, k + 1, best)

IsStale_Never(created, clock) == FALSE

\* lines 155-158: message_time < cutoff_time
IsStale(created, clock) == created < clock - TIME_WINDOW_HOURS

AlreadyProcessed_Strict(created, last_processed_time) ==
  created < last_processed_time

\* line 163
AlreadyProcessed(created, last_processed_time) == created <= last_processed_time

HasNewerOutgoing_OrEqual(messages, created) ==
  \E k \in 1..Len(messages) :
    messages[k].direction = "out" /\ messages[k].created >= created

\* lines 167-170
HasNewerOutgoing(messages, created) ==
  \E k \in 1..Len(messages) :
    messages[k].direction = "out" /\ messages[k].created > created

HasAnyOutgoing_AnyType(messages) ==
  \E k \in 1..Len(messages) : messages[k].direction = "out"

\* line 182
HasAnyOutgoing(messages) ==
  \E k \in 1..Len(messages) :
    messages[k].direction = "out" /\ messages[k].type = "text"

\* what a fetched list holds, stated apart from the loops of the code:
\* the greatest stamp of an inbound non-empty text message, and of an
\* outbound message (0 when there is none)
Answerable(message) ==
  /\ message.direction = "in"
  /\ message.type = "text"
  /\ \E i \in 1..Len(message.text) : message.text[i] # " "

LatestInbound(messages) ==
  Max({0} \cup {m.created : m \in {x \in Range(messages) : Answerable(x)}})

LatestOutbound(messages) ==
  Max({0} \cup {m.created : m \in {x \in Range(messages) : x.direction = "out"}})

\* what lines 139-179 compute from a returned list: the locals of
\* process_chat that its decisions read, with what the list holds (seen_in,
\* seen_out)
Digest(messages) ==
  LET k == FindLastIncoming(messages, 1, 0)
  IN  [empty |-> messages = <<>>,
       last_incoming |-> IF k = 0 THEN 0 ELSE messages[k].created,
       has_newer_outgoing |->
         k # 0 /\ HasNewerOutgoing(messages, messages[k].created),
       current_stage |-> determine_dialog_stage(messages),
       seen_in |-> LatestInbound(messages),
       seen_out |-> LatestOutbound(messages)]

\* the answers of get_messages, each list through the code above
Fetches == {Digest(messages) : messages \in MessageLists}

Seen(fetch, clock) ==
  [seen_in |-> fetch.seen_in, seen_out |-> fetch.seen_out, now |-> clock]

(***************************************************************************)
(* Collaborators that are not part of the sources.                         *)
(***************************************************************************)
\* chat_gpt.check_dialog_completion: the raw reply contains the marker
check_dialog_completion(response) == Contains(response, COMPLETION_MARKER)

\* what extract_final_client_data may return when it returns something
ClientData == {"mapping", "json_mapping", "json_list", "not_json"}

\* what the Telegram API may answer to sendMessage
Deliveries == {"200", "400", "raise"}

(***************************************************************************)
(* src/telegram.py                                                         *)
(***************************************************************************)
\* TelegramBot.send_message: TRUE on status 200, FALSE otherwise; "raise"
\* when the HTTP session raises
send_message(delivery) ==
  IF delivery = "raise" THEN "raise" ELSE IF delivery = "200" THEN "true" ELSE "false"

SendClientInfoExcept_Reraised(outcome) == outcome

\* lines 89-91: except Exception of send_client_info returns False
SendClientInfoExcept(outcome) == IF outcome = "raise" THEN "false" ELSE outcome

\* TelegramBot.send_client_info: json.loads of a string, the rendering with
\* data.get, the delivery, all inside the try of line 33
send_client_info(client_data, delivery) ==
  LET parsed == client_data # "not_json"                 \* json.loads raises
      rendered == client_data \in {"mapping", "json_mapping"}  \* data.get raises
  IN  SendClientInfoExcept(IF ~parsed \/ ~rendered THEN "raise"
                           ELSE send_message(delivery))

send_completed_application(client_data, delivery) ==
  send_client_info(client_data, delivery)

(***************************************************************************)
(* AvitoRentalBot.process_chat, one action per stretch between two awaits. *)
(***************************************************************************)
\* the record of an ended invocation (events, result, failed, escaped) is
\* history: it is kept for one step after the end
Forget(task) ==
  IF task.pc = "done" THEN [NewTask(task.chat) EXCEPT !.pc = "done"] ELSE task

Forgotten ==
  IF \A t \in BagToSet(tasks) : Forget(t) = t THEN tasks
  ELSE [u \in {Forget(t) : t \in BagToSet(tasks)} |->
          BagCardinality([t \in {x \in BagToSet(tasks) : Forget(x) = u} |-> tasks[t]])]

\* the batch after a step that takes task t to task u
After(t, u) == (Forgotten (-) SetToBag({t})) (+) SetToBag({u})

Set(t, u) == tasks' = After(t, u)

Running(t, at) == run_pc = "gather" /\ BagIn(t, tasks) /\ t.pc = at

OnBegin_NoCompletedCheck(task, completed) == Call(task, "fetch", "fetching")

\* lines 132-138: the completed check, then the call of get_messages
OnBegin(task, completed) ==
  IF task.chat \in completed THEN Return(task, "completed")
  ELSE Call(task, "fetch", "fetching")

process_chat_begin(t) ==
  /\ Running(t, "start")
  /\ Set(t, OnBegin(t, completed_chats))
  /\ fetched' = NoFetch
  /\ caught' = NoError
  /\ UNCHANGED probe
  /\ UNCHANGED <<processed_messages, completed_chats, chat_stages, chat_states, run_pc, dispatched, handoffs>>

\* lines 139-197 on a returned list: the skips, then the call of the generator
\* (last_incoming 0 is None)
OnMessages(task, fetch, last_processed_time, clock) ==
  LET created == fetch.last_incoming
  IN  IF fetch.empty THEN Fails(task, "fetch", "no_messages")
      ELSE IF created = 0 THEN Return(task, "no_incoming")
      ELSE IF IsStale(created, clock) THEN Return(task, "stale")
      ELSE IF AlreadyProcessed(created, last_processed_time)
        THEN Return(task, "already_processed")
      ELSE IF fetch.has_newer_outgoing
        THEN Return(task, "already_answered")
      ELSE Call([task EXCEPT !.last_incoming = created], "generate", "generating")

process_chat_fetch_raises(t) ==
  /\ Running(t, "fetching")
  /\ Set(t, Caught(Raise(t, "fetch")))
  /\ fetched' = NoFetch
  /\ caught' = NoError
  /\ UNCHANGED probe
  /\ UNCHANGED <<processed_messages, completed_chats, chat_stages, chat_states, run_pc, dispatched, handoffs>>

process_chat_fetched(t) ==
  /\ Running(t, "fetching")
  /\ \E fetch \in Fetches, clock \in Clocks :
       LET task == OnMessages(t, fetch, processed_messages[t.chat], clock)
       IN  /\ Set(t, task)
           /\ fetched' = Seen(fetch, clock)
           /\ caught' = NoError
           /\ UNCHANGED probe
           /\ chat_stages' =
                IF task.pc = "generating"
                  THEN [chat_stages EXCEPT ![task.chat] = fetch.current_stage]
                  ELSE chat_stages
  /\ UNCHANGED <<processed_messages, completed_chats, chat_states, run_pc, dispatched, handoffs>>

\* line 204
CleanResponse(response) == Strip(Remove(response, COMPLETION_MARKER))

\* the call of client.send_message as the trace records it: with a text that
\* holds the marker, or not
SendOf(clean_response) ==
  IF Contains(clean_response, COMPLETION_MARKER) THEN "send_with_marker" ELSE "send"

\* what lines 199-207 compute from a returned reply
Reply(response) ==
  [empty |-> response = <<>>,
   marker |-> check_dialog_completion(response),
   send |-> SendOf(CleanResponse(response))]

\* the answers of get_agent_response, each reply through the code above
Replies == {Reply(response) : response \in Responses}

\* lines 197-207 on a returned reply: the empty reply, the marker removed,
\* the call of client.send_message with clean_response
OnResponse(task, reply) ==
  IF reply.empty THEN Fails(task, "generate", "no_response")
  ELSE Call([task EXCEPT !.marker = reply.marker], reply.send, "sending")

process_chat_generate_raises(t) ==
  /\ Running(t, "generating")
  /\ Set(t, Caught(Raise(t, "generate")))
  /\ fetched' = NoFetch
  /\ caught' = NoError
  /\ UNCHANGED probe
  /\ UNCHANGED <<processed_messages, completed_chats, chat_stages, chat_states, run_pc, dispatched, handoffs>>

process_chat_generated(t) ==
  /\ Running(t, "generating")
  /\ \E reply \in Replies : Set(t, OnResponse(t, reply))
  /\ fetched' = NoFetch
  /\ caught' = NoError
  /\ UNCHANGED probe
  /\ UNCHANGED <<processed_messages, completed_chats, chat_stages, chat_states, run_pc, dispatched, handoffs>>

process_chat_send_raises(t) ==
  /\ Running(t, "sending")
  /\ Set(t, Caught(Raise(t, "send")))
  /\ fetched' = NoFetch
  /\ caught' = NoError
  /\ UNCHANGED probe
  /\ UNCHANGED <<processed_messages, completed_chats, chat_stages, chat_states, run_pc, dispatched, handoffs>>

\* line 213
Advance(processed, chat_id, created) == [processed EXCEPT ![chat_id] = created]

AfterSend_BeforeSuccessCheck(processed, task, success) ==
  Advance(processed, task.chat, task.last_incoming)

\* lines 209-213: processed_messages is written on success only
AfterSend(processed, task, success) ==
  IF success THEN Advance(processed, task.chat, task.last_incoming) ELSE processed

OnSent_HandoffBeforeSuccessCheck(task, success) ==
  IF task.marker
    THEN Call(IF success THEN Note(task, "advance") ELSE task, "extract", "extracting")
    ELSE IF success THEN Return(Note(task, "advance"), "replied")
         ELSE Fails(task, "send", "send_failed")

\* lines 209-223 and 231-234 on the sender's answer: on success the stamp
\* advanced, the transcript saved, and on a reply with the marker
\* handle_completed_dialog called up to its extractor
OnSent(task, success) ==
  IF ~success THEN Fails(task, "send", "send_failed")
  ELSE IF task.marker
    THEN Call(Note(task, "advance"), "extract", "extracting")
    ELSE Return(Note(task, "advance"), "replied")

\* the history counters count none, one, several
Count(n) == IF n = 0 THEN 1 ELSE 2

process_chat_send_returned(t) ==
  /\ Running(t, "sending")
  /\ \E success \in BOOLEAN :
       LET task == t
           c == task.chat
           handoff == success /\ task.marker
       IN  /\ processed_messages' = AfterSend(processed_messages, task, success)
           /\ chat_states' = IF success THEN [chat_states EXCEPT ![c] = @ + 1]
                             ELSE chat_states
           /\ dispatched' =
                IF success THEN [dispatched EXCEPT ![c][task.last_incoming] = Count(@)]
                ELSE dispatched
           /\ handoffs' = IF handoff THEN [handoffs EXCEPT ![c] = Count(@)] ELSE handoffs
           /\ Set(t, OnSent(task, success))
  /\ fetched' = NoFetch
  /\ caught' = NoError
  /\ UNCHANGED probe
  /\ UNCHANGED <<completed_chats, chat_stages, run_pc>>

(***************************************************************************)
(* AvitoRentalBot.handle_completed_dialog                                  *)
(***************************************************************************)
\* line 250
MarkCompleted(completed, chat_id) == completed \cup {chat_id}

\* line 234 raises: lines 252-253, and process_chat returns
handle_completed_dialog_extract_raises(t) ==
  /\ Running(t, "extracting")
  /\ Set(t, CaughtInHandoff(Raise(t, "extract")))
  /\ fetched' = NoFetch
  /\ caught' = NoError
  /\ UNCHANGED probe
  /\ UNCHANGED <<processed_messages, completed_chats, chat_stages, chat_states, run_pc, dispatched, handoffs>>

\* lines 246-250: no client data
handle_completed_dialog_no_data(t) ==
  /\ Running(t, "extracting")
  /\ Set(t, Fails(Note(t, "complete"), "extract", "no_client_data"))
  /\ completed_chats' = MarkCompleted(completed_chats, t.chat)
  /\ fetched' = NoFetch
  /\ caught' = NoError
  /\ UNCHANGED probe
  /\ UNCHANGED <<processed_messages, chat_stages, chat_states, run_pc, dispatched, handoffs>>

\* lines 236-240: client data, the call of send_completed_application
handle_completed_dialog_extracted(t) ==
  /\ Running(t, "extracting")
  /\ Set(t, Call(t, "notify", "notifying"))
  /\ fetched' = NoFetch
  /\ caught' = NoError
  /\ UNCHANGED probe
  /\ UNCHANGED <<processed_messages, completed_chats, chat_stages, chat_states, run_pc, dispatched, handoffs>>

\* lines 240-250 on the notifier's answer
OnNotified(task, outcome) ==
  IF outcome = "raise" THEN CaughtInHandoff(Raise(task, "notify"))
  ELSE IF outcome = "true" THEN Return(Note(task, "complete"), "handoff_done")
  ELSE Fails(Note(task, "complete"), "notify", "notify_failed")

\* the client data was drawn by the extractor; it is chosen here, where the
\* notifier reads it
handle_completed_dialog_notified(t) ==
  /\ Running(t, "notifying")
  /\ \E client_data \in ClientData, delivery \in Deliveries :
       LET outcome == send_completed_application(client_data, delivery)
       IN  /\ Set(t, OnNotified(t, outcome))
           /\ completed_chats' = IF outcome = "raise" THEN completed_chats
                                 ELSE MarkCompleted(completed_chats, t.chat)
  /\ fetched' = NoFetch
  /\ caught' = NoError
  /\ UNCHANGED probe
  /\ UNCHANGED <<processed_messages, chat_stages, chat_states, run_pc, dispatched, handoffs>>

(***************************************************************************)
(* AvitoRentalBot.run                                                      *)
(***************************************************************************)
\* a listing names only chats with fewer than MaxSaved saved replies (the
\* bound of the model), and chats without an id
Listings ==
  SeqsUpTo({c \in Chats : chat_states[c] < MaxSaved} \cup {NoId}, MaxBatch)

\* lines 264-281: the listing, one task per chat with an id
run_list(chats) ==
  /\ run_pc = "list"
  /\ tasks' = CreateTasks(chats)
  /\ run_pc' = IF tasks' = EmptyBag THEN "sleep" ELSE "gather"
  /\ fetched' = NoFetch
  /\ caught' = NoError
  /\ UNCHANGED probe
  /\ UNCHANGED <<processed_messages, completed_chats, chat_stages, chat_states, dispatched, handoffs>>

RunExcept_Propagates(from) == "stopped"

\* lines 285-290: except Exception of run(), inside the while loop; the loop
\* goes on to the sleep of line 290 (an exception that left the loop would
\* stop the bot)
RunExcept(from) == "sleep"

\* lines 264-266 raise: the client cannot be opened, or get_chats raises
run_list_raises ==
  /\ run_pc = "list"
  /\ run_pc' = RunExcept("list")
  /\ fetched' = NoFetch
  /\ caught' = "list"
  /\ UNCHANGED probe
  /\ UNCHANGED <<processed_messages, completed_chats, chat_stages, chat_states, tasks, dispatched, handoffs>>

Gathered_FirstCompleted(batch) == \E t \in BagToSet(batch) : t.pc = "done"

\* line 281: gather(return_exceptions=True) returns when every task is done,
\* whatever the tasks raised
Gathered(batch) == \A t \in BagToSet(batch) : t.pc = "done"

run_gathered ==
  /\ run_pc = "gather"
  /\ Gathered(tasks)
  /\ run_pc' = "sleep"
  /\ tasks' = EmptyBag
  /\ fetched' = NoFetch
  /\ caught' = NoError
  /\ UNCHANGED probe
  /\ UNCHANGED <<processed_messages, completed_chats, chat_stages, chat_states, dispatched, handoffs>>

\* lines 281-283 raise: the batch was awaited and leaving the client's
\* async with block raises
run_gather_raises ==
  /\ run_pc = "gather"
  /\ Gathered(tasks)
  /\ run_pc' = RunExcept("gather")
  /\ tasks' = EmptyBag
  /\ fetched' = NoFetch
  /\ caught' = "gather"
  /\ UNCHANGED probe
  /\ UNCHANGED <<processed_messages, completed_chats, chat_stages, chat_states, dispatched, handoffs>>

\* line 290: the sleep ends and the next iteration starts
run_sleep ==
  /\ run_pc = "sleep"
  /\ run_pc' = "list"
  /\ fetched' = NoFetch
  /\ caught' = NoError
  /\ UNCHANGED probe
  /\ UNCHANGED <<processed_messages, completed_chats, chat_stages, chat_states, tasks, dispatched, handoffs>>

Next ==
  \/ \E chats \in Listings : run_list(chats)
  \/ run_list_raises
  \/ run_gathered
  \/ run_gather_raises
  \/ run_sleep
  \/ \E t \in BagToSet(tasks) : process_chat_begin(t)
  \/ \E t \in BagToSet(tasks) : process_chat_fetch_raises(t)
  \/ \E t \in BagToSet(tasks) : process_chat_fetched(t)
  \/ \E t \in BagToSet(tasks) : process_chat_generate_raises(t)
  \/ \E t \in BagToSet(tasks) : process_chat_generated(t)
  \/ \E t \in BagToSet(tasks) : process_chat_send_raises(t)
  \/ \E t \in BagToSet(tasks) : process_chat_send_returned(t)
  \/ \E t \in BagToSet(tasks) : handle_completed_dialog_extract_raises(t)
  \/ \E t \in BagToSet(tasks) : handle_completed_dialog_no_data(t)
  \/ \E t \in BagToSet(tasks) : handle_completed_dialog_extracted(t)
  \/ \E t \in BagToSet(tasks) : handle_completed_dialog_notified(t)

Spec == Init /\ [][Next]_vars

\* the event loop runs every task that is ready, and every awaited call of a
\* collaborator returns or raises
FairSpec == Spec /\ WF_vars(Next)

(***************************************************************************)
(* format_dialog_history applied on its own to a message list.             *)
(***************************************************************************)
HistoryTexts == {<<"a">>, AgentLabel \o <<"b">>}

\* text messages of both directions, an image and a message of white space
HistoryMessages ==
  [direction : {"in", "out"}, type : {"text"}, text : HistoryTexts, created : Stamps]
    \cup {[direction |-> "in", type |-> "image", text |-> <<"a">>, created |-> 1],
          [direction |-> "out", type |-> "text", text |-> <<" ">>, created |-> 1]}

HistoryLists == SeqsUpTo(HistoryMessages, MaxHistory)

InitFormat ==
  /\ InitBot
  /\ probe \in {[fn |-> "format_dialog_history", messages |-> messages,
                  done |-> FALSE, result |-> <<>>] : messages \in HistoryLists}

format_applied ==
  /\ probe.fn = "format_dialog_history"
  /\ ~probe.done
  /\ probe' = [probe EXCEPT !.done = TRUE,
                            !.result = format_dialog_history(probe.messages)]
  /\ UNCHANGED <<processed_messages, completed_chats, chat_stages, chat_states,
                 run_pc, tasks, fetched, dispatched, handoffs, caught>>

SpecFormat == InitFormat /\ [][format_applied]_vars

(***************************************************************************)
(* determine_dialog_stage applied on its own: to the facts it reads off    *)
(* the messages, each a boolean, and to message lists.                     *)
(***************************************************************************)
FactNames ==
  {"has_agent_messages", "has_greeting", "has_residents_info", "has_period_info",
   "has_date_info", "has_phone", "asks_residents", "asks_children", "asks_pets",
   "asks_period", "asks_date", "asks_phone"}

Facts == [FactNames -> BOOLEAN]

\* the agent's greeting and a question about children; a client's text with
\* the residents only, and one with residents, period, month and phone
AgentTexts == {<<"Zdravstvuyte", "Svetlana">>, <<"det">>}
ClientTexts == {<<"odin">>, <<"odin", "god", "mart", PhoneNumber>>}

StageMessages ==
  [direction : {"out"}, type : {"text"}, text : AgentTexts, created : Stamps]
    \cup [direction : {"in"}, type : {"text"}, text : ClientTexts, created : Stamps]

StageLists == SeqsUpTo(StageMessages, MaxHistory)

InitStage ==
  /\ InitBot
  /\ probe \in
       {[fn |-> "StageOf", facts |-> facts, done |-> FALSE, result |-> ""] :
          facts \in Facts}
         \cup {[fn |-> "determine_dialog_stage", messages |-> messages,
                 done |-> FALSE, result |-> ""] : messages \in StageLists}

stage_of_applied ==
  /\ probe.fn = "StageOf"
  /\ ~probe.done
  /\ probe' = [probe EXCEPT !.done = TRUE, !.result = StageOf(probe.facts)]
  /\ UNCHANGED <<processed_messages, completed_chats, chat_stages, chat_states,
                 run_pc, tasks, fetched, dispatched, handoffs, caught>>

determine_dialog_stage_applied ==
  /\ probe.fn = "determine_dialog_stage"
  /\ ~probe.done
  /\ probe' = [probe EXCEPT !.done = TRUE,
                            !.result = determine_dialog_stage(probe.messages)]
  /\ UNCHANGED <<processed_messages, completed_chats, chat_stages, chat_states,
                 run_pc, tasks, fetched, dispatched, handoffs, caught>>

NextStage == stage_of_applied \/ determine_dialog_stage_applied

SpecStage == InitStage /\ [][NextStage]_vars

\* lines 178-197 of process_chat: what get_agent_response is called with,
\* and the stage that is stored for the chat
AgentRequest(messages) ==
  [current_stage |-> determine_dialog_stage(messages),
   is_first_message |-> ~HasAnyOutgoing(messages),
   dialog_history |-> format_dialog_history(messages)]

InitRequest ==
  /\ InitBot
  /\ probe \in {[fn |-> "AgentRequest", messages |-> messages, done |-> FALSE,
                  result |-> [current_stage |-> STAGE_GREETING,
                              is_first_message |-> FALSE,
                              dialog_history |-> <<>>]] :
                  messages \in MessageLists}

agent_request_applied ==
  /\ probe.fn = "AgentRequest"
  /\ ~probe.done
  /\ probe' = [probe EXCEPT !.done = TRUE, !.result = AgentRequest(probe.messages)]
  /\ UNCHANGED <<processed_messages, completed_chats, chat_stages, chat_states,
                 run_pc, tasks, fetched, dispatched, handoffs, caught>>

SpecRequest == InitRequest /\ [][agent_request_applied]_vars

(***************************************************************************)
(* Properties.                                                             *)
(***************************************************************************)
Trace(t) == Range(t.events)

Sends == {"send", "send_with_marker"}

Done(t) == t.pc = "done"

Batch == BagToSet(tasks)

\* C1: the sender succeeds at most once per chat and inbound message (the
\* message is known by its created stamp), overlapping invocations included.
C1_AtMostOneReplyPerInbound ==
  \A c \in Chats : \A s \in Stamps : dispatched[c][s] <= 1

\* C2: processed_messages[chat_id] never decreases, whatever the interleaving
\* of the invocations for that chat.
C2_LastProcessedNeverDecreases ==
  [][\A c \in Chats : processed_messages'[c] >= processed_messages[c]]_vars

\* C3: the structured extractor is called at most once per chat over the run.
C3_HandoffAtMostOnce == \A c \in Chats : handoffs[c] <= 1

\* C4: an invocation that entered handle_completed_dialog (it called the
\* extractor) has, when it is over, put the chat in completed_chats.
C4_CompletedAfterHandoff ==
  \A t \in Batch :
    (Done(t) /\ "extract" \in Trace(t)) =>
      ("complete" \in Trace(t) /\ t.chat \in completed_chats)

\* the step taken is a step of an invocation, from t to u
StepOf(t, u) ==
  /\ BagIn(t, tasks)
  /\ ~Done(t)
  /\ u # t
  /\ CopiesIn(t, tasks') < CopiesIn(t, tasks)
  /\ tasks' = After(t, u)

StoreUnchanged ==
  /\ processed_messages' = processed_messages
  /\ completed_chats' = completed_chats

NoCallsIn(events) ==
  events \cap ({"generate", "extract", "notify", "advance", "complete"} \cup Sends) = {}

\* C5: an invocation that starts on a completed chat returns at once, with no
\* fetch, generate, send, extract or notify call and no write; and no chat
\* ever leaves completed_chats.
C5_CompletedIsTerminal ==
  [][/\ completed_chats \subseteq completed_chats'
     /\ \A t \in Batch : \A u \in BagToSet(tasks') :
          (t.pc = "start" /\ t.chat \in completed_chats /\ StepOf(t, u))
            => /\ Done(u)
               /\ u.events = <<>>
               /\ StoreUnchanged
               /\ dispatched' = dispatched
               /\ handoffs' = handoffs]_vars

C5_Witness ==
  \E t \in Batch :
    /\ Done(t)
    /\ t.result = "completed"
    /\ t.chat \in completed_chats

\* C6: when the latest inbound non-empty text message of the fetched list has
\* created <= processed_messages[chat_id] (equality included), the invocation
\* ends there: no generator call, no sender call, nothing written.
C6_ProcessedStampIsSkipped ==
  [][\A t \in Batch : \A u \in BagToSet(tasks') :
       (/\ fetched'.seen_in > 0
        /\ fetched'.seen_in <= processed_messages[t.chat]
        /\ StepOf(t, u))
         => /\ Done(u)
            /\ NoCallsIn(Trace(u))
            /\ StoreUnchanged
            /\ chat_stages' = chat_stages
            /\ chat_states' = chat_states
            /\ dispatched' = dispatched]_vars

C6_Witness ==
  \E t \in Batch :
    /\ fetched.seen_in > 0
    /\ fetched.seen_in = processed_messages[t.chat]
    /\ fetched.seen_in >= fetched.now - TIME_WINDOW_HOURS
    /\ t.result = "already_processed"

\* C7: an outbound message strictly later than the latest inbound text message
\* ends the invocation without a generator or sender call; an outbound message
\* that is not later does not: if the inbound message is within the window
\* and newer than the stored stamp, the generator is called.
C7_LaterOutboundSuppresses ==
  [][\A t \in Batch : \A u \in BagToSet(tasks') :
       (fetched'.seen_in > 0 /\ StepOf(t, u))
         => /\ (fetched'.seen_out > fetched'.seen_in)
                 => /\ Done(u)
                    /\ NoCallsIn(Trace(u))
            /\ (/\ fetched'.seen_out <= fetched'.seen_in
                /\ fetched'.seen_in >= fetched'.now - TIME_WINDOW_HOURS
                /\ fetched'.seen_in > processed_messages[t.chat])
                 => /\ u.pc = "generating"
                    /\ u.last_incoming = fetched'.seen_in]_vars

C7_Witness ==
  \E t \in Batch :
    /\ fetched.seen_in > 0
    /\ fetched.seen_out > fetched.seen_in
    /\ fetched.seen_in >= fetched.now - TIME_WINDOW_HOURS
    /\ fetched.seen_in > processed_messages[t.chat]
    /\ t.result = "already_answered"

\* an outbound message with the stamp of the inbound one, and the reply goes on
C7_EqualStampWitness ==
  \E t \in Batch :
    /\ fetched.seen_in > 0
    /\ fetched.seen_out = fetched.seen_in
    /\ t.pc = "generating"
    /\ t.last_incoming = fetched.seen_in
    /\ Trace(t) \cap Sends = {}

\* C8: the step on which the generator returns nothing, or the sender reports
\* failure, writes nothing, and the invocation that ends there has written
\* nothing and made no extractor or notifier call.
C8_NoReplyNoWrite ==
  [][\A t \in Batch : \A u \in BagToSet(tasks') :
       (u.result \in {"no_response", "send_failed"} /\ StepOf(t, u))
         => /\ Done(u)
            /\ StoreUnchanged
            /\ handoffs' = handoffs
            /\ dispatched' = dispatched
            /\ chat_states' = chat_states
            /\ Trace(u) \cap {"advance", "extract", "notify", "complete"} = {}]_vars

C8_Witness ==
  \E t \in Batch :
    /\ Done(t)
    /\ t.result = "send_failed"
    /\ Trace(t) \cap Sends # {}

Writes == {"advance", "complete"}

\* C9 as stated: whichever collaborator call fails or raises (fetch, generate,
\* send, extract or notify), the exception stays inside process_chat and the
\* invocation has written neither processed_messages nor completed_chats.
C9_AnyFailureLeavesState ==
  \A t \in Batch :
    (Done(t) /\ t.failed # "")
      => ~t.escaped /\ Trace(t) \cap Writes = {}

\* C9 as amended: no exception of a collaborator call escapes process_chat;
\* when fetch, generate or send fails or raises, the invocation has written
\* nothing and the failing step writes nothing, so the stored stamp is still
\* below the inbound message's; a failed extract or notify comes after the
\* stamp was advanced.
C9_FailureBeforeReplyLeavesState ==
  [][\A t \in Batch : \A u \in BagToSet(tasks') :
       (Done(u) /\ u.failed # "" /\ StepOf(t, u))
         => /\ ~u.escaped
            /\ u.failed \in {"fetch", "generate", "send"}
                 => /\ Trace(u) \cap Writes = {}
                    /\ StoreUnchanged
                    /\ handoffs' = handoffs
                    /\ dispatched' = dispatched
            /\ u.failed \in {"extract", "notify"}
                 => "advance" \in Trace(u)]_vars

C9_Witness ==
  \E t \in Batch :
    /\ Done(t)
    /\ t.failed = "send"
    /\ t.result = "error"
    /\ processed_messages[t.chat] = 0

\* C10: an invocation whose reply held the marker and was sent performs, in
\* this order, the send of the reply without the marker, the advance of the
\* stamp, the extractor call, exactly one notifier call and the marking as
\* completed; and no text passed to the sender holds the marker.
C10_HandoffOrder ==
  \A t \in Batch :
    /\ "send_with_marker" \notin Trace(t)
    /\ (Done(t) /\ "extract" \in Trace(t))
         => t.events =
              <<"fetch", "generate", "send", "advance", "extract", "notify", "complete">>

\* an invocation of the batch has ended on a failure of a collaborator
SomeFailed == \E t \in Batch : Done(t) /\ t.failed # ""

\* C11: no error ends the poll loop.  An exception while listing or while
\* awaiting the batch is caught by run() and leads to the sleep; an
\* invocation that fails leaves the batch running, the batch is left only
\* when every invocation of it is over, and then the sleep follows; a new
\* listing is always reached again, and only from the sleep.
C11_LoopSurvivesErrors ==
  /\ [](run_pc # "stopped")
  /\ [](caught # NoError => run_pc = "sleep")
  /\ [][(run_pc = "gather" /\ run_pc' # "gather")
          => (run_pc' = "sleep" /\ \A t \in Batch : Done(t))]_vars
  /\ [](SomeFailed => run_pc = "gather")
  /\ [][(run_pc # "list" /\ run_pc' = "list") => run_pc = "sleep"]_vars
  /\ []<>(run_pc = "list")

\* an invocation ended on a caught exception while another of the same batch
\* is still under way
C11_Witness ==
  \E t \in Batch : \E u \in Batch :
    /\ Done(t) /\ t.result = "error" /\ ~t.escaped
    /\ ~Done(u) /\ u.pc # "start"
    /\ run_pc = "gather"

\* the sleep reached from a listing that raised, and from a failed await
C11_ListingErrorWitness == caught = "list" /\ run_pc = "sleep"

C11_BatchErrorWitness == caught = "gather" /\ run_pc = "sleep"

\* the reorderings of a list
Reorderings(messages) ==
  {[i \in 1..Len(messages) |-> messages[f[i]]] : f \in Permutations(1..Len(messages))}

\* the messages rendered in a transcript: one per line
RenderedIn(transcript) ==
  IF transcript = <<>> THEN 0
  ELSE 1 + Cardinality({i \in 1..Len(transcript) : transcript[i] = "\n"})

\* C12: format_dialog_history returns the same transcript for every
\* reordering of its message list, with at most MAX_MESSAGES_HISTORY
\* messages rendered in it.
C12_TranscriptIgnoresOrder ==
  (probe.fn = "format_dialog_history" /\ probe.done)
    => /\ \A other \in Reorderings(probe.messages) :
            format_dialog_history(other) = probe.result
       /\ RenderedIn(probe.result) <= MAX_MESSAGES_HISTORY

\* the ordered rule table of the stage classifier, steps 2 to 10
RuleTable(facts) ==
  <<[when |-> ~facts.has_agent_messages, stage |-> STAGE_GREETING],
    [when |-> ~facts.has_greeting, stage |-> STAGE_GREETING],
    [when |-> ~facts.has_residents_info \/ facts.asks_residents,
     stage |-> STAGE_RESIDENTS],
    [when |-> facts.asks_children /\ ~facts.has_period_info,
     stage |-> STAGE_CHILDREN],
    [when |-> facts.asks_pets /\ ~facts.has_period_info, stage |-> STAGE_PETS],
    [when |-> ~facts.has_period_info \/ facts.asks_period,
     stage |-> STAGE_RENTAL_PERIOD],
    [when |-> ~facts.has_date_info \/ facts.asks_date, stage |-> STAGE_DEADLINE],
    [when |-> ~facts.has_phone \/ facts.asks_phone, stage |-> STAGE_CONTACTS],
    [when |-> TRUE, stage |-> STAGE_COMPLETE]>>

FirstMatch(table) ==
  table[CHOOSE i \in 1..Len(table) :
          table[i].when /\ \A j \in 1..(i - 1) : ~table[j].when].stage

\* C13: the classifier returns one of the eight stages, the one of the first
\* rule of the ordered table that matches, for every value of the facts and
\* for every message list.
C13_StageIsFirstMatch ==
  /\ (probe.fn = "StageOf" /\ probe.done)
       => /\ probe.result \in Stages
          /\ probe.result = FirstMatch(RuleTable(probe.facts))
  /\ (probe.fn = "determine_dialog_stage" /\ probe.done)
       => /\ probe.result \in Stages
          /\ probe.result = FirstMatch(RuleTable(StageFacts(probe.messages)))

\* the agent's last message asks about children and about pets: the earlier
\* rule wins
C13_Witness ==
  /\ probe.fn = "StageOf"
  /\ probe.done
  /\ probe.facts.has_greeting /\ probe.facts.has_residents_info
  /\ probe.facts.asks_children /\ probe.facts.asks_pets
  /\ probe.result = STAGE_CHILDREN

\* the last rule of the table is reached from a message list
C13_LastRuleWitness ==
  /\ probe.fn = "determine_dialog_stage"
  /\ probe.done
  /\ probe.result = STAGE_COMPLETE

\* C14: when the latest inbound non-empty text message is older than the
\* clock minus the window, the invocation ends at once: no generator call, no
\* sender call, nothing written.  The message that the generator is called
\* for is the latest inbound non-empty text message, whatever later inbound
\* message of another type or without text the list holds, and without any
\* inbound non-empty text message no call is made.
C14_StaleIsSkipped ==
  [][\A t \in Batch : \A u \in BagToSet(tasks') :
       (fetched'.now > 0 /\ StepOf(t, u))
         => /\ (fetched'.seen_in > 0
                  /\ fetched'.seen_in < fetched'.now - TIME_WINDOW_HOURS)
                 => /\ Done(u)
                    /\ NoCallsIn(Trace(u))
                    /\ StoreUnchanged
                    /\ chat_stages' = chat_stages
                    /\ chat_states' = chat_states
                    /\ dispatched' = dispatched
            /\ fetched'.seen_in = 0 => (Done(u) /\ NoCallsIn(Trace(u)))
            /\ ~Done(u) => (u.pc = "generating"
                              /\ u.last_incoming = fetched'.seen_in)]_vars

\* a stale message that is newer than the stored stamp and has no reply
C14_Witness ==
  \E t \in Batch :
    /\ fetched.seen_in > 0
    /\ fetched.seen_in < fetched.now - TIME_WINDOW_HOURS
    /\ fetched.seen_in > processed_messages[t.chat]
    /\ fetched.seen_out <= fetched.seen_in
    /\ t.result = "stale"

\* the attempt that ends because the generator returned nothing or the sender
\* reported failure leaves the stored stamp and the completed set as they
\* were, and a later invocation that fetches the same message as the latest
\* inbound text message, within the window, newer than the stored stamp and
\* without a later outbound message, calls the generator for it
C15_FailedAttemptIsRetried ==
  [][\A t \in Batch : \A u \in BagToSet(tasks') :
       /\ (u.result \in {"no_response", "send_failed"} /\ StepOf(t, u))
            => /\ processed_messages' = processed_messages
               /\ completed_chats' = completed_chats
       /\ (fetched'.seen_in > 0 /\ StepOf(t, u))
            => ((/\ fetched'.seen_out <= fetched'.seen_in
                 /\ fetched'.seen_in >= fetched'.now - TIME_WINDOW_HOURS
                 /\ fetched'.seen_in > processed_messages[t.chat])
                  => /\ u.pc = "generating"
                     /\ u.last_incoming = fetched'.seen_in
                     /\ "generate" \in Trace(u))]_vars

\* C15: a message whose attempt failed (generator empty, sender failure) is
\* tried again by the next cycle that fetches it as the latest inbound text
\* message within the window and without a later outbound message, and it
\* receives exactly one reply: the sender never succeeds for a message that
\* already has a reply.
C15_RetriedUntilExactlyOneReply ==
  /\ C15_FailedAttemptIsRetried
  /\ [][\A c \in Chats : \A s \in Stamps :
          dispatched'[c][s] # dispatched[c][s] => dispatched[c][s] = 0]_vars

\* a second cycle replies twice to the message that the first cycle failed on
C15_SecondReplyWitness ==
  \E c \in Chats : \E s \in Stamps :
    /\ dispatched[c][s] = 2
    /\ processed_messages[c] = s

\* the outbound non-empty text messages of the greatest created stamp
LatestAgentMessages(messages) ==
  LET agent == {i \in 1..Len(messages) :
                  /\ messages[i].direction = "out"
                  /\ messages[i].type = "text"
                  /\ Strip(messages[i].text) # <<>>}
  IN  {i \in agent : \A j \in agent : messages[j].created <= messages[i].created}

\* C16: determine_dialog_stage consults the outbound text message of the
\* greatest created stamp as the agent's most recent message, so it returns
\* the same stage for every ordering of the same message list.
C16_StageIgnoresOrder ==
  (probe.fn = "determine_dialog_stage" /\ probe.done)
    => \A reordered \in Reorderings(probe.messages) :
         determine_dialog_stage(reordered) = probe.result

\* the last outbound message of the list is older than another one, and the
\* stage follows the list order
C16_OlderMessageConsulted ==
  /\ probe.fn = "determine_dialog_stage"
  /\ probe.done
  /\ LET messages == probe.messages
         latest == LatestAgentMessages(messages)
     IN  /\ latest # {}
         /\ \E i \in latest :
              /\ \A j \in latest : j = i
              /\ \E k \in (i + 1)..Len(messages) : messages[k].direction = "out"
              /\ probe.result
                   # determine_dialog_stage(
                       SortedByCreated(messages))

\* C17: the first-message flag that the generator is called with is true
\* exactly when the fetched list holds no outbound message of type text; for
\* a list of one inbound text message the stage is greeting, the transcript
\* is the one client line and the flag is true.
C17_FirstMessageFlag ==
  (probe.fn = "AgentRequest" /\ probe.done)
    => LET messages == probe.messages
           request == probe.result
       IN  /\ request.is_first_message
                <=> (\A i \in 1..Len(messages) :
                       ~(messages[i].direction = "out" /\ messages[i].type = "text"))
           /\ (/\ Len(messages) = 1
               /\ messages[1].direction = "in"
               /\ messages[1].type = "text"
               /\ Strip(messages[1].text) # <<>>)
                => /\ request.current_stage = STAGE_GREETING
                   /\ request.dialog_history = ClientLabel \o Strip(messages[1].text)
                   /\ request.is_first_message

\* the scenario: one inbound text message and nothing else
C17_Witness ==
  /\ probe.fn = "AgentRequest"
  /\ probe.done
  /\ Len(probe.messages) = 1
  /\ probe.messages[1].direction = "in"
  /\ probe.messages[1].type = "text"
  /\ Strip(probe.messages[1].text) # <<>>
  /\ probe.result.is_first_message
  /\ probe.result.dialog_history # <<>>

\* an outbound message that is not of type text leaves the flag true, an
\* outbound text message without text makes it false
C17_OutboundImageWitness ==
  /\ probe.fn = "AgentRequest"
  /\ probe.done
  /\ \E i \in 1..Len(probe.messages) :
       probe.messages[i].direction = "out" /\ probe.messages[i].type = "image"
  /\ probe.result.is_first_message

C17_BlankOutboundWitness ==
  /\ probe.fn = "AgentRequest"
  /\ probe.done
  /\ \A i \in 1..Len(probe.messages) :
       probe.messages[i].direction = "out" => Strip(probe.messages[i].text) = <<>>
  /\ ~probe.result.is_first_message

\* the invocations for a chat that have not finished
InFlight(batch, c) ==
  LET running == {t \in BagToSet(batch) : t.chat = c /\ ~Done(t)}
  IN  BagCardinality([t \in running |-> CopiesIn(t, batch)])

Occurrences(chats, c) == Cardinality({i \in 1..Len(chats) : chats[i] = c})

\* C18: the poll cycles do not overlap.  Invocations are in flight only
\* while run() awaits the batch; new invocations start only with a listing,
\* when none of an earlier cycle is in flight, one per listed entry, so that a
\* chat has as many invocations in flight as the one listing named it; and
\* run() leaves the await only when every invocation has finished, so one that
\* never returns keeps it there.
C18_CyclesDoNotOverlap ==
  /\ [](run_pc # "gather" => \A c \in Chats : InFlight(tasks, c) = 0)
  /\ [][(\E c \in Chats : InFlight(tasks', c) > InFlight(tasks, c))
          => /\ run_pc = "list"
             /\ run_pc' = "gather"
             /\ \A c \in Chats : InFlight(tasks, c) = 0
             /\ \E chats \in Listings :
                  \A c \in Chats : InFlight(tasks', c) = Occurrences(chats, c)]_vars
  /\ [][(run_pc = "gather" /\ run_pc' # "gather")
          => \A c \in Chats : InFlight(tasks, c) = 0 /\ InFlight(tasks', c) = 0]_vars

\* two invocations for one chat in flight together
C18_Witness ==
  /\ run_pc = "gather"
  /\ \E c \in Chats : InFlight(tasks, c) >= 2

\* one invocation has finished and run() still awaits its sibling
C18_AwaitingWitness ==
  /\ run_pc = "gather"
  /\ \E t \in Batch : Done(t)
  /\ \E t \in Batch : ~Done(t)

\* C19: a chat becomes completed only in an invocation that sent, with
\* success, a reply whose generated text held the completion marker.  A
\* completed chat has a stored stamp that is not 0 and is the stamp of an
\* answered inbound message; and when the reply holds the marker and the send
\* fails, the invocation ends without extractor or notifier call and the
\* completed set stays as it was.
C19_CompletedOnlyAfterMarkedReply ==
  /\ [](\A c \in completed_chats :
          /\ processed_messages[c] # 0
          /\ dispatched[c][processed_messages[c]] >= 1
          /\ handoffs[c] >= 1)
  /\ [][completed_chats' # completed_chats
          => \E t \in Batch : \E u \in BagToSet(tasks') :
               /\ StepOf(t, u)
               /\ t.marker
               /\ completed_chats' = completed_chats \cup {t.chat}
               /\ {"advance", "extract", "complete"} \subseteq Trace(u)
               /\ Trace(u) \cap Sends # {}]_vars
  /\ [][\A t \in Batch : \A u \in BagToSet(tasks') :
          (t.pc = "sending" /\ t.marker /\ chat_states' = chat_states /\ StepOf(t, u))
            => /\ Done(u)
               /\ Trace(u) \cap {"advance", "extract", "notify", "complete"} = {}
               /\ completed_chats' = completed_chats
               /\ processed_messages' = processed_messages
               /\ handoffs' = handoffs]_vars

\* the invocation that marked the chat completed has just ended
C19_Witness ==
  \E t \in Batch :
    /\ Done(t)
    /\ "complete" \in Trace(t)
    /\ t.chat \in completed_chats
    /\ processed_messages[t.chat] # 0

\* a reply with the marker is being sent, in a chat that is not completed and
\* has no stored stamp: the send may fail
C19_MarkedReplyInFlightWitness ==
  \E t \in Batch :
    /\ t.pc = "sending"
    /\ t.marker
    /\ t.chat \notin completed_chats
    /\ processed_messages[t.chat] = 0

\* C20: the notifier answers every failure with False and never raises: client
\* data that cannot be parsed or rendered, a delivery that raises and a
\* delivery answered with another status than 200 all give False.  The step
\* that takes the notifier's answer therefore always marks the chat completed
\* and ends the invocation without an exception.
C20_NotifierNeverRaises ==
  /\ [](\A client_data \in ClientData : \A delivery \in Deliveries :
          LET outcome == send_completed_application(client_data, delivery)
          IN  /\ outcome \in {"true", "false"}
              /\ outcome = "true"
                   <=> (client_data \in {"mapping", "json_mapping"} /\ delivery = "200"))
  /\ [][\A t \in Batch : \A u \in BagToSet(tasks') :
          (t.pc = "notifying" /\ StepOf(t, u))
            => /\ Done(u)
               /\ u.result \in {"handoff_done", "notify_failed"}
               /\ ~u.escaped
               /\ "complete" \in Trace(u)
               /\ completed_chats' = completed_chats \cup {t.chat}
               /\ t.chat \in completed_chats']_vars

\* the notifier has reported a failure and the chat is completed
C20_Witness ==
  \E t \in Batch :
    /\ Done(t)
    /\ t.result = "notify_failed"
    /\ t.failed = "notify"
    /\ t.chat \in completed_chats

====
